---------------------------- MODULE Spec2Model ----------------------------
(***************************************************************************)
(* A model of the HTTP request parser, the response builder/serializer and *)
(* the connection handler of codecrafters-http-server-rust.                *)
(*                                                                         *)
(* Bytes are modelled as their numeric values, byte strings and Strings as *)
(* sequences of bytes.  Only ASCII (0..127) bytes are drawn, so the        *)
(* str::from_utf8(..).unwrap() calls of the parser never panic and         *)
(* to_lowercase() is the ASCII case fold.                                  *)
(***************************************************************************)
EXTENDS Integers, Sequences, FiniteSets

(***************************************************************************)
(* Byte strings                                                            *)
(***************************************************************************)
CRLF == <<13, 10>> (* "\r\n" *)
ColonSpace == <<58, 32>> (* ": " *)

Drop(s, n) == SubSeq(s, n + 1, Len(s))
Take(s, n) == SubSeq(s, 1, n)

StartsWith(s, t) == Len(s) >= Len(t) /\ SubSeq(s, 1, Len(t)) = t

\* Number of leading bytes of s that belong to the byte set S
PrefixLen(s, S) ==
    CHOOSE n \in 0..Len(s) :
        /\ \A i \in 1..n : s[i] \in S
        /\ (n = Len(s) \/ s[n + 1] \notin S)

\* <[u8] as FindSubstring>::find_substring: 0-based index of the first
\* occurrence of t in s, or -1 when there is none
FindSubstring(s, t) ==
    LET hits == {i \in 0..(Len(s) - Len(t)) : SubSeq(s, i + 1, i + Len(t)) = t}
    IN IF hits = {} THEN -1 ELSE CHOOSE i \in hits : \A j \in hits : i <= j

RECURSIVE Concat(_)
Concat(ss) == IF ss = <<>> THEN <<>> ELSE Head(ss) \o Concat(Tail(ss))

\* u8::to_ascii_lowercase / String::to_lowercase on ASCII text
LowerByte(c) == IF c \in 65..90 THEN c + 32 ELSE c
to_lowercase(s) == [i \in 1..Len(s) |-> LowerByte(s[i])]

\* Ord for String / &[u8]: lexicographic comparison of the bytes
StrLess(a, b) ==
    \E i \in 1..(Len(a) + 1) :
        /\ i <= Len(b)
        /\ \A j \in 1..(i - 1) : a[j] = b[j]
        /\ (i = Len(a) + 1 \/ a[i] < b[i])

(***************************************************************************)
(* Option<T> and nom's IResult                                             *)
(***************************************************************************)
None == [some |-> FALSE, v |-> <<>>]
Some(x) == [some |-> TRUE, v |-> x]

\* Ok((remain, val))
POk(remain, val) == [ok |-> TRUE, remain |-> remain, val |-> val, kind |-> "", input |-> <<>>]
\* Err(nom::Err::Error(Error { input, code: kind }))
PErr(kind, input) == [ok |-> FALSE, remain |-> <<>>, val |-> <<>>, kind |-> kind, input |-> input]

(***************************************************************************)
(* nom's tuple((p1, p2, ...)) runs its parsers one after another, each on  *)
(* what the one before left, and fails with the first error.  A parser is  *)
(* modelled as an operator on the tuple so far (st): it returns st when st *)
(* already failed, its own error when it fails, and otherwise st with the  *)
(* input it consumed removed and its value appended to st.val.             *)
(***************************************************************************)
TStart(input) == POk(input, <<>>)

\* the result r of parsing st.remain joins the tuple st
TPush(st, r) ==
    IF ~st.ok THEN st
    ELSE IF r.ok THEN POk(r.remain, Append(st.val, r.val)) ELSE r

\* st.remain split after its first n bytes
TTake(st, n) == POk(Drop(st.remain, n), Append(st.val, Take(st.remain, n)))

\* nom::bytes::complete::tag
tag(t, st) ==
    IF ~st.ok THEN st
    ELSE IF StartsWith(st.remain, t) THEN TTake(st, Len(t)) ELSE PErr("Tag", st.remain)

SpaceBytes == {32, 9}
WhitespaceBytes == {32, 9, 13, 10}
DigitBytes == 48..57
HeaderKeyBytes == (65..90) \cup (97..122) \cup {45}

\* fn is_whitespace
is_whitespace(c) == c \in WhitespaceBytes

\* fn is_header_key
is_header_key(c) == c \in HeaderKeyBytes

\* nom::character::complete::space1: one or more spaces or tabs
space1(st) ==
    IF ~st.ok THEN st
    ELSE IF PrefixLen(st.remain, SpaceBytes) = 0 THEN PErr("Space", st.remain)
    ELSE TTake(st, PrefixLen(st.remain, SpaceBytes))

\* take_till(is_whitespace): the maximal run of non-whitespace bytes, maybe empty
take_till_whitespace(st) ==
    IF ~st.ok THEN st
    ELSE TTake(st, PrefixLen(st.remain, {c \in 0..127 : ~is_whitespace(c)}))

\* take_while1(is_header_key)
take_while1_header_key(st) ==
    IF ~st.ok THEN st
    ELSE IF PrefixLen(st.remain, {c \in 0..127 : is_header_key(c)}) = 0
         THEN PErr("TakeWhile1", st.remain)
    ELSE TTake(st, PrefixLen(st.remain, {c \in 0..127 : is_header_key(c)}))

\* take_until1("\r\n"): the non-empty run of bytes before the first CRLF
take_until1_crlf(st) ==
    IF ~st.ok THEN st
    ELSE IF FindSubstring(st.remain, CRLF) <= 0 THEN PErr("TakeUntil", st.remain)
    ELSE TTake(st, FindSubstring(st.remain, CRLF))

(***************************************************************************)
(* Method                                                                  *)
(***************************************************************************)
MethodTags ==
    << <<"Get", <<71, 69, 84>> (* "GET" *)>>, <<"Head", <<72, 69, 65, 68>> (* "HEAD" *)>>, <<"Post", <<80, 79, 83, 84>> (* "POST" *)>>,
       <<"Put", <<80, 85, 84>> (* "PUT" *)>>, <<"Delete", <<68, 69, 76, 69, 84, 69>> (* "DELETE" *)>>, <<"Connect", <<67, 79, 78, 78, 69, 67, 84>> (* "CONNECT" *)>>,
       <<"Options", <<79, 80, 84, 73, 79, 78, 83>> (* "OPTIONS" *)>>, <<"Trace", <<84, 82, 65, 67, 69>> (* "TRACE" *)>>, <<"Patch", <<80, 65, 84, 67, 72>> (* "PATCH" *)>> >>

\* the index of the first alternative of alt((...)) whose tag matches, or 0
FirstMethod(input) ==
    LET hits == {i \in 1..Len(MethodTags) : StartsWith(input, MethodTags[i][2])}
    IN IF hits = {} THEN 0 ELSE CHOOSE h \in hits : \A g \in hits : h <= g

\* alt((value(Self::Get, tag("GET")), ..., value(Self::Patch, tag("PATCH"))))
Method_parser(st) ==
    IF ~st.ok THEN st
    ELSE IF FirstMethod(st.remain) = 0 THEN PErr("Tag", st.remain)
    ELSE POk(Drop(st.remain, Len(MethodTags[FirstMethod(st.remain)][2])),
             Append(st.val, MethodTags[FirstMethod(st.remain)][1]))

(***************************************************************************)
(* Version                                                                 *)
(***************************************************************************)
U8Max == 255

\* parse::<u8> with wrapping arithmetic instead of checked arithmetic: what C7
\* rules out
RECURSIVE ParseU8FromWrapping(_, _)
ParseU8FromWrapping(acc, digits) ==
    IF digits = <<>> THEN acc
    ELSE ParseU8FromWrapping((acc * 10 + (Head(digits) - 48)) % (U8Max + 1), Tail(digits))

\* <u8 as FromStr>::from_str on a run of ASCII digits: checked multiply and
\* add, digit by digit; -1 stands for Err(PosOverflow)
RECURSIVE ParseU8From(_, _)
ParseU8From(acc, digits) ==
    IF digits = <<>> THEN acc
    ELSE IF acc * 10 + (Head(digits) - 48) > U8Max THEN -1
    ELSE ParseU8From(acc * 10 + (Head(digits) - 48), Tail(digits))

ParseU8(digits) == ParseU8From(0, digits)

\* map_res(digit1, |s| str::from_utf8(s).unwrap().parse::<u8>())
digit1_u8(st) ==
    IF ~st.ok THEN st
    ELSE IF PrefixLen(st.remain, DigitBytes) = 0 THEN PErr("Digit", st.remain)
    ELSE IF ParseU8(Take(st.remain, PrefixLen(st.remain, DigitBytes))) < 0
         THEN PErr("MapRes", st.remain)
    ELSE POk(Drop(st.remain, PrefixLen(st.remain, DigitBytes)),
             Append(st.val, ParseU8(Take(st.remain, PrefixLen(st.remain, DigitBytes)))))

\* Ok((remain, Self { major, minor }))
Version_of(st) ==
    IF ~st.ok THEN st ELSE POk(st.remain, [major |-> st.val[2], minor |-> st.val[4]])

Version_parser(input) ==
    Version_of(digit1_u8(tag(<<46>> (* "." *), digit1_u8(tag(<<72, 84, 84, 80, 47>> (* "HTTP/" *), TStart(input))))))

\* u8 / u32 / usize as Display: decimal, no leading zeros
RECURSIVE Decimal(_)
Decimal(n) == IF n < 10 THEN <<48 + n>> ELSE Decimal(n \div 10) \o <<48 + (n % 10)>>

\* impl fmt::Display for Version
Version_fmt(v) == <<72, 84, 84, 80, 47>> (* "HTTP/" *) \o Decimal(v.major) \o <<46>> (* "." *) \o Decimal(v.minor)

(***************************************************************************)
(* RequestLine and Request                                                 *)
(***************************************************************************)
\* Ok((remain, Self { method, path, version }))
RequestLine_of(st) ==
    IF ~st.ok THEN st
    ELSE POk(st.remain, [method |-> st.val[1], path |-> st.val[3], version |-> st.val[5]])

Version_elem(st) == TPush(st, Version_parser(st.remain))

RequestLine_parser(input) ==
    RequestLine_of(
        tag(CRLF, Version_elem(space1(take_till_whitespace(space1(
            Method_parser(TStart(input))))))))

\* (key, value) of the pair
header_of(st) == IF ~st.ok THEN st ELSE POk(st.remain, <<st.val[1], st.val[3]>>)

\* pair(terminated(take_while1(is_header_key), tag(": ")),
\*      terminated(take_until1("\r\n"), tag("\r\n")))
header_line(input) ==
    header_of(tag(CRLF, take_until1_crlf(tag(ColonSpace,
        take_while1_header_key(TStart(input))))))

\* many0 that passes on the error of a line that is neither a header line nor
\* the end of the header block: the behaviour C4 as stated would need
RECURSIVE many0_strict(_, _, _)
many0_strict(acc, input, h) ==
    IF h.ok THEN many0_strict(Append(acc, h.val), h.remain, header_line(h.remain))
    ELSE IF input = <<>> \/ StartsWith(input, CRLF) THEN POk(input, acc)
    ELSE h

\* many0(header_line): applies header_line until it fails with Err::Error;
\* header_line never succeeds without consuming, so many0 itself never fails
RECURSIVE many0_from(_, _, _)
many0_from(acc, input, h) ==
    IF h.ok THEN many0_from(Append(acc, h.val), h.remain, header_line(h.remain))
    ELSE POk(input, acc)

many0_header_line(input) == many0_from(<<>>, input, header_line(input))

\* preceded(tag("\r\n"), rest) without the opt: the blank line is required,
\* the behaviour C3 as stated would need
opt_body_required(input) ==
    IF StartsWith(input, CRLF) THEN POk(<<>>, Some(Drop(input, Len(CRLF))))
    ELSE PErr("Tag", input)

\* opt(preceded(tag("\r\n"), rest)): rest always succeeds, also on no input
opt_body(input) ==
    IF StartsWith(input, CRLF) THEN POk(<<>>, Some(Drop(input, Len(CRLF))))
    ELSE POk(input, None)

\* collect that keeps the first pair of a key and does not fold the key: what
\* C8 rules out
collect_headers_first(pairs) ==
    LET keys == {pairs[i][1] : i \in 1..Len(pairs)}
        first(k) == CHOOSE i \in 1..Len(pairs) :
                       /\ pairs[i][1] = k
                       /\ \A j \in 1..(i - 1) : pairs[j][1] # k
    IN [k \in keys |-> pairs[first(k)][2]]

\* headers.into_iter().map(|(k, v)| (k.to_lowercase(), v.to_owned())).collect():
\* HashMap::from_iter inserts in order, a later pair replaces an earlier one
collect_headers(pairs) ==
    LET keys == {to_lowercase(pairs[i][1]) : i \in 1..Len(pairs)}
        last(k) == CHOOSE i \in 1..Len(pairs) :
                      /\ to_lowercase(pairs[i][1]) = k
                      /\ \A j \in (i + 1)..Len(pairs) : to_lowercase(pairs[j][1]) # k
    IN [k \in keys |-> pairs[last(k)][2]]

RequestLine_elem(st) == TPush(st, RequestLine_parser(st.remain))
many0_elem(st) == TPush(st, many0_header_line(st.remain))
opt_elem(st) == TPush(st, opt_body(st.remain))

\* Ok((remain, Self { req_line, headers: headers_owned, body }))
Request_of(st) ==
    IF ~st.ok THEN st
    ELSE POk(st.remain,
             [req_line |-> st.val[1], headers |-> collect_headers(st.val[2]),
              body |-> st.val[3]])

Request_parser(input) ==
    Request_of(opt_elem(many0_elem(RequestLine_elem(TStart(input)))))

\* Request::get_content_length: <usize as FromStr>::from_str on the header
\* value: an optional '+', then one or more digits, the value at most
\* usize::MAX (64-bit target).  Values of ten or more significant digits are
\* all reported as 1000000000: callers only compare the result with a buffer
\* length, which never exceeds ReadBufSize.
UsizeMaxDigits == <<49, 56, 52, 52, 54, 55, 52, 52, 48, 55, 51, 55, 48, 57, 53, 53, 49, 54, 49, 53>> (* "18446744073709551615" *)

RECURSIVE StripZeros(_)
StripZeros(d) == IF Len(d) > 1 /\ Head(d) = 48 THEN StripZeros(Tail(d)) ELSE d

RECURSIVE DigitsValue(_, _)
DigitsValue(acc, d) ==
    IF d = <<>> THEN acc ELSE DigitsValue(acc * 10 + (Head(d) - 48), Tail(d))

ParseUsize(s) ==
    LET d == IF s # <<>> /\ Head(s) = 43 THEN Tail(s) ELSE s
        z == StripZeros(d)
    IN IF d = <<>> \/ \E i \in 1..Len(d) : d[i] \notin DigitBytes THEN None
       ELSE IF Len(z) > Len(UsizeMaxDigits) THEN None
       ELSE IF Len(z) = Len(UsizeMaxDigits) /\ StrLess(UsizeMaxDigits, z) THEN None
       ELSE IF Len(z) >= 10 THEN Some(1000000000)
       ELSE Some(DigitsValue(0, z))

get_content_length(req) ==
    IF <<99, 111, 110, 116, 101, 110, 116, 45, 108, 101, 110, 103, 116, 104>> (* "content-length" *) \in DOMAIN req.headers
    THEN ParseUsize(req.headers[<<99, 111, 110, 116, 101, 110, 116, 45, 108, 101, 110, 103, 116, 104>> (* "content-length" *)])
    ELSE None

(***************************************************************************)
(* Status, StatusLine, Response                                            *)
(***************************************************************************)
Statuses == {"Ok", "Created", "BadRequest", "NotFound", "Internal"}

Status_code(s) ==
    CASE s = "Ok" -> 200
      [] s = "Created" -> 201
      [] s = "BadRequest" -> 400
      [] s = "NotFound" -> 404
      [] s = "Internal" -> 500

Status_text(s) ==
    CASE s = "Ok" -> <<79, 75>> (* "OK" *)
      [] s = "Created" -> <<67, 114, 101, 97, 116, 101, 100>> (* "Created" *)
      [] s = "BadRequest" -> <<66, 97, 100, 32, 82, 101, 113, 117, 101, 115, 116>> (* "Bad Request" *)
      [] s = "NotFound" -> <<78, 79, 84, 32, 70, 79, 85, 78, 68>> (* "NOT FOUND" *)
      [] s = "Internal" -> <<73, 110, 116, 101, 114, 110, 97, 108, 32, 83, 101, 114, 118, 101, 114, 32, 69, 114, 114, 111, 114>> (* "Internal Server Error" *)

\* impl fmt::Display for Status
Status_fmt(s) == Decimal(Status_code(s)) \o <<32>> (* " " *) \o Status_text(s)

\* impl fmt::Display for StatusLine
StatusLine_fmt(sl) == Version_fmt(sl.version) \o <<32>> (* " " *) \o Status_fmt(sl.status) \o CRLF

EmptyHeaders == [k \in {} |-> <<>>]

Response_new(status) ==
    [status_line |-> [version |-> [major |-> 1, minor |-> 1], status |-> status],
     headers |-> EmptyHeaders,
     body |-> None]

\* #[derive(Default)]: Version::default() is 1.1, Status::default() is Internal
Response_default ==
    [status_line |-> [version |-> [major |-> 1, minor |-> 1], status |-> "Internal"],
     headers |-> EmptyHeaders,
     body |-> None]

\* HashMap::insert: the new value replaces the one stored under the same key
HashMap_insert(m, k, v) == [x \in DOMAIN m \cup {k} |-> IF x = k THEN v ELSE m[x]]

\* with_header that stores the value as given: what C6 rules out
with_header_raw(resp, k, v) ==
    [resp EXCEPT !.headers = HashMap_insert(@, to_lowercase(k), v)]

with_header(resp, k, v) ==
    [resp EXCEPT !.headers = HashMap_insert(@, to_lowercase(k), to_lowercase(v))]

with_body(resp, body, content_type) ==
    with_header(with_header([resp EXCEPT !.body = Some(body)],
                            <<67, 111, 110, 116, 101, 110, 116, 45, 84, 121, 112, 101>> (* "Content-Type" *), content_type),
                <<67, 111, 110, 116, 101, 110, 116, 45, 76, 101, 110, 103, 116, 104>> (* "Content-Length" *), Decimal(Len(body)))

\* the headers in another order than ascending (a HashMap iterates in no
\* particular order): what C1 rules out
RECURSIVE headers_descending(_)
headers_descending(headers) ==
    IF DOMAIN headers = {} THEN <<>>
    ELSE LET k == CHOOSE x \in DOMAIN headers :
                      \A y \in DOMAIN headers \ {x} : StrLess(y, x)
         IN <<k>> \o headers_descending([x \in DOMAIN headers \ {k} |-> headers[x]])

\* sorted_headers.sort(): the (key, value) pairs in ascending order; the keys
\* of a map are distinct, so the order is the order of the keys
RECURSIVE sorted_headers(_)
sorted_headers(headers) ==
    IF DOMAIN headers = {} THEN <<>>
    ELSE LET k == CHOOSE x \in DOMAIN headers :
                      \A y \in DOMAIN headers \ {x} : StrLess(x, y)
         IN <<k>> \o sorted_headers([x \in DOMAIN headers \ {k} |-> headers[x]])

\* impl Serialize for Response, writing to a Vec<u8> (which never fails)
serialize(resp) ==
    LET ks == sorted_headers(resp.headers)
        line(i) == ks[i] \o ColonSpace \o resp.headers[ks[i]] \o CRLF
    IN StatusLine_fmt(resp.status_line)
       \o Concat([i \in 1..Len(ks) |-> line(i)])
       \o CRLF
       \o (IF resp.body.some THEN resp.body.v ELSE <<>>)

to_bytes(resp) == serialize(resp)

(***************************************************************************)
(* Routing (main.rs).  A route yields the response and the file write it   *)
(* attempts, if any.  fs maps the names of the files under the serving     *)
(* directory to their contents; write_ok is the outcome of fs::write.      *)
(***************************************************************************)
ReadBufSize == 1024

Routed(resp, write) == [response |-> resp, write |-> write]

\* str::strip_prefix
strip_prefix(s, p) == IF StartsWith(s, p) THEN Some(Drop(s, Len(p))) ELSE None

route_get_root == Response_new("Ok")

route_get_echo(path) == with_body(Response_new("Ok"), path, <<116, 101, 120, 116, 47, 112, 108, 97, 105, 110>> (* "text/plain" *))

route_get_user_agent(req) ==
    LET user_agent == IF <<117, 115, 101, 114, 45, 97, 103, 101, 110, 116>> (* "user-agent" *) \in DOMAIN req.headers
                      THEN req.headers[<<117, 115, 101, 114, 45, 97, 103, 101, 110, 116>> (* "user-agent" *)] ELSE <<>>
    IN with_body(Response_new("Ok"), user_agent, <<116, 101, 120, 116, 47, 112, 108, 97, 105, 110>> (* "text/plain" *))

route_get_files(path, dir, files) ==
    IF ~dir.some THEN Response_new("Internal")
    ELSE IF path \in DOMAIN files
         THEN with_body(Response_new("Ok"), files[path], <<97, 112, 112, 108, 105, 99, 97, 116, 105, 111, 110, 47, 111, 99, 116, 101, 116, 45, 115, 116, 114, 101, 97, 109>> (* "application/octet-stream" *))
         ELSE Response_new("NotFound")

route_get(req, dir, files) ==
    IF req.req_line.path = <<47>> (* "/" *) THEN route_get_root
    ELSE IF strip_prefix(req.req_line.path, <<47, 101, 99, 104, 111, 47>> (* "/echo/" *)).some
         THEN route_get_echo(strip_prefix(req.req_line.path, <<47, 101, 99, 104, 111, 47>> (* "/echo/" *)).v)
    ELSE IF req.req_line.path = <<47, 117, 115, 101, 114, 45, 97, 103, 101, 110, 116>> (* "/user-agent" *) THEN route_get_user_agent(req)
    ELSE IF strip_prefix(req.req_line.path, <<47, 102, 105, 108, 101, 115, 47>> (* "/files/" *)).some
         THEN route_get_files(strip_prefix(req.req_line.path, <<47, 102, 105, 108, 101, 115, 47>> (* "/files/" *)).v, dir, files)
    ELSE Response_new("NotFound")

\* the length check with >= for >: what C10 rules out
content_len_reaches(content_len, body) == content_len >= Len(body)

\* if content_len > body.len()
content_len_exceeds(content_len, body) == content_len > Len(body)

\* fs::write(file_path, &body[0..content_len])
body_slice(body, content_len) == SubSeq(body, 1, content_len)

route_post_files(req, path, dir, write_ok) ==
    IF ~dir.some THEN Routed(Response_new("Internal"), None)
    ELSE IF ~req.body.some THEN Routed(Response_new("BadRequest"), None)
    ELSE IF ~get_content_length(req).some THEN Routed(Response_new("BadRequest"), None)
    ELSE IF content_len_exceeds(get_content_length(req).v, req.body.v)
         THEN Routed(Response_new("BadRequest"), None)
    ELSE Routed(Response_new(IF write_ok THEN "Created" ELSE "Internal"),
                Some([path |-> path,
                      data |-> body_slice(req.body.v, get_content_length(req).v),
                      ok |-> write_ok]))

route_post(req, dir, write_ok) ==
    IF strip_prefix(req.req_line.path, <<47, 102, 105, 108, 101, 115, 47>> (* "/files/" *)).some
    THEN route_post_files(req, strip_prefix(req.req_line.path, <<47, 102, 105, 108, 101, 115, 47>> (* "/files/" *)).v, dir, write_ok)
    ELSE Routed(Response_new("NotFound"), None)

\* handle_conn, lines 31-37: the response chosen for a parsed request
route(req, dir, files, write_ok) ==
    IF req.req_line.method = "Get" THEN Routed(route_get(req, dir, files), None)
    ELSE IF req.req_line.method = "Post" THEN route_post(req, dir, write_ok)
    ELSE Routed(Response_new("Internal"), None)

(***************************************************************************)
(* State                                                                   *)
(***************************************************************************)
VARIABLES
    pc,          \* where the server is: main's accept loop or a point of handle_conn
    file_dir,    \* get_file_directory(): the --directory argument, if given
    fs,          \* the files of the serving directory
    inp,         \* the pieces the input under test was built from
    buf,         \* buf_read: the bytes handed to Request::parser
    parsed,      \* the IResult of Request::parser, once it ran
    response,    \* the Response being built or answered
    calls,       \* the with_header calls made on response, in order
    out,         \* the bytes serialized / written to the TcpStream
    fs_attempt,  \* the fs::write the handler attempted, if any
    result       \* what handle_conn returned: "Ok" or "Err"

vars == <<pc, file_dir, fs, inp, buf, parsed, response, calls, out, fs_attempt, result>>

SeqsUpTo(S, n) == UNION {[1..k -> S] : k \in 0..n}

EmptyFs == [k \in {} |-> <<>>]

(***************************************************************************)
(* Spec: the server.  main accepts a connection and spawns handle_conn,    *)
(* which reads once, parses, routes and writes once.  Tasks share nothing  *)
(* but the serving directory, so connections are taken one after another.  *)
(***************************************************************************)
MaxReqHeaders == 1

ConnLines ==
    { <<71, 69, 84, 32, 47, 32, 72, 84, 84, 80, 47, 49, 46, 49, 13, 10>> (* "GET / HTTP/1.1\r\n" *),
      <<71, 69, 84, 32, 47, 101, 99, 104, 111, 47, 97, 98, 99, 32, 72, 84, 84, 80, 47, 49, 46, 49, 13, 10>> (* "GET /echo/abc HTTP/1.1\r\n" *),
      <<71, 69, 84, 32, 47, 117, 115, 101, 114, 45, 97, 103, 101, 110, 116, 32, 72, 84, 84, 80, 47, 49, 46, 49, 13, 10>> (* "GET /user-agent HTTP/1.1\r\n" *),
      <<71, 69, 84, 32, 47, 102, 105, 108, 101, 115, 47, 97, 46, 116, 120, 116, 32, 72, 84, 84, 80, 47, 49, 46, 49, 13, 10>> (* "GET /files/a.txt HTTP/1.1\r\n" *),
      <<71, 69, 84, 32, 47, 110, 111, 112, 101, 32, 72, 84, 84, 80, 47, 49, 46, 49, 13, 10>> (* "GET /nope HTTP/1.1\r\n" *),
      <<80, 79, 83, 84, 32, 47, 102, 105, 108, 101, 115, 47, 97, 46, 116, 120, 116, 32, 72, 84, 84, 80, 47, 49, 46, 49, 13, 10>> (* "POST /files/a.txt HTTP/1.1\r\n" *),
      <<80, 79, 83, 84, 32, 47, 117, 112, 108, 111, 97, 100, 32, 72, 84, 84, 80, 47, 49, 46, 49, 13, 10>> (* "POST /upload HTTP/1.1\r\n" *),
      <<80, 85, 84, 32, 47, 102, 105, 108, 101, 115, 47, 97, 46, 116, 120, 116, 32, 72, 84, 84, 80, 47, 49, 46, 49, 13, 10>> (* "PUT /files/a.txt HTTP/1.1\r\n" *),
      <<70, 79, 79, 32, 47, 32, 72, 84, 84, 80, 47, 49, 46, 49, 13, 10>> (* "FOO / HTTP/1.1\r\n" *),
      <<71, 69, 84, 32, 47, 32, 72, 84, 84, 80, 47, 51, 48, 48, 46, 49, 13, 10>> (* "GET / HTTP/300.1\r\n" *),
      <<71, 69, 84, 32, 47, 13, 10>> (* "GET /\r\n" *),
      <<71, 69, 84>> (* "GET" *) }

ConnHeaderLines ==
    { <<67, 111, 110, 116, 101, 110, 116, 45, 76, 101, 110, 103, 116, 104, 58, 32, 51, 13, 10>> (* "Content-Length: 3\r\n" *),
      <<67, 111, 110, 116, 101, 110, 116, 45, 76, 101, 110, 103, 116, 104, 58, 32, 48, 13, 10>> (* "Content-Length: 0\r\n" *),
      <<99, 111, 110, 116, 101, 110, 116, 45, 108, 101, 110, 103, 116, 104, 58, 32, 53, 13, 10>> (* "content-length: 5\r\n" *),
      <<67, 111, 110, 116, 101, 110, 116, 45, 76, 101, 110, 103, 116, 104, 58, 32, 43, 50, 13, 10>> (* "Content-Length: +2\r\n" *),
      <<67, 111, 110, 116, 101, 110, 116, 45, 76, 101, 110, 103, 116, 104, 58, 32, 97, 98, 99, 13, 10>> (* "Content-Length: abc\r\n" *),
      <<67, 111, 110, 116, 101, 110, 116, 45, 76, 101, 110, 103, 116, 104, 58, 32, 49, 56, 52, 52, 54, 55, 52, 52, 48, 55, 51, 55, 48, 57, 53, 53, 49, 54, 49, 54, 13, 10>> (* "Content-Length: 18446744073709551616\r\n" *),
      <<67, 111, 110, 116, 101, 110, 116, 45, 76, 101, 110, 103, 116, 104, 58, 32, 52, 50, 57, 52, 57, 54, 55, 50, 57, 54, 13, 10>> (* "Content-Length: 4294967296\r\n" *),
      <<85, 115, 101, 114, 45, 65, 103, 101, 110, 116, 58, 32, 99, 117, 114, 108, 47, 55, 46, 54, 52, 46, 49, 13, 10>> (* "User-Agent: curl/7.64.1\r\n" *) }

ConnRests == { <<>>, <<13, 10>> (* "\r\n" *), <<13, 10, 97, 98, 99>> (* "\r\nabc" *), <<13, 10, 97, 98, 99, 100>> (* "\r\nabcd" *) }

ConnBufs ==
    { l \o Concat(hs) \o r : l \in ConnLines, hs \in SeqsUpTo(ConnHeaderLines, MaxReqHeaders),
                             r \in ConnRests }

Init ==
    /\ pc = "accept"
    /\ file_dir \in {None, Some(<<47, 116, 109, 112, 47, 100, 97, 116, 97>> (* "/tmp/data" *))}
    /\ fs \in {EmptyFs, [k \in {<<97, 46, 116, 120, 116>> (* "a.txt" *)} |-> <<104, 105>> (* "hi" *)]}
    /\ inp = <<>>
    /\ buf = <<>>
    /\ parsed = None
    /\ response = None
    /\ calls = <<>>
    /\ out = None
    /\ fs_attempt = None
    /\ result = ""

\* main, lines 146-155: accept a connection and spawn its handle_conn task
Accept ==
    /\ pc \in {"accept", "done"}
    /\ pc' = "read"
    /\ buf' = <<>>
    /\ parsed' = None
    /\ response' = None
    /\ out' = None
    /\ fs_attempt' = None
    /\ result' = ""
    /\ UNCHANGED <<file_dir, fs, inp, calls>>

\* handle_conn, lines 25-27: one read of at most ReadBufSize bytes, or an I/O error
Read ==
    /\ pc = "read"
    /\ \/ \E b \in ConnBufs :
            /\ buf' = (IF Len(b) > ReadBufSize THEN Take(b, ReadBufSize) ELSE b)
            /\ pc' = "parse"
            /\ result' = result
       \/ /\ buf' = buf
          /\ pc' = "done"
          /\ result' = "Err"
    /\ UNCHANGED <<file_dir, fs, inp, parsed, response, calls, out, fs_attempt>>

\* handle_conn, lines 29-37: parse (an error returns Err through `?`), then route
Handle ==
    /\ pc = "parse"
    /\ LET r == Request_parser(buf) IN
       /\ parsed' = Some(r)
       /\ IF ~r.ok
          THEN /\ pc' = "done"
               /\ result' = "Err"
               /\ UNCHANGED <<response, fs, fs_attempt>>
          ELSE \E write_ok \in BOOLEAN :
                 LET rt == route(r.val, file_dir, fs, write_ok) IN
                 /\ write_ok \/ rt.write.some
                 /\ response' = Some(rt.response)
                 /\ fs_attempt' = rt.write
                 /\ fs' = IF rt.write.some /\ write_ok
                          THEN HashMap_insert(fs, rt.write.v.path, rt.write.v.data)
                          ELSE fs
                 /\ pc' = "write"
                 /\ result' = result
    /\ UNCHANGED <<file_dir, inp, buf, calls, out>>

\* handle_conn, lines 38-40: one stream.write, which may write all bytes, only
\* the first of them, or fail
Write ==
    /\ pc = "write"
    /\ LET bytes == to_bytes(response.v) IN
       \/ /\ out' = Some(bytes)
          /\ result' = "Ok"
       \/ \E n \in {1, Len(bytes) - 1} :
            /\ out' = Some(Take(bytes, n))
            /\ result' = "Ok"
       \/ /\ out' = out
          /\ result' = "Err"
    /\ pc' = "done"
    /\ UNCHANGED <<file_dir, fs, inp, buf, parsed, response, calls, fs_attempt>>

Next == Accept \/ Read \/ Handle \/ Write

Spec == Init /\ [][Next]_vars

(***************************************************************************)
(* SpecParser: Request::parser applied to buffers made of a request line,  *)
(* header lines (well-formed or not) and what follows them.                *)
(***************************************************************************)
MaxHeaderLines == 2

\* the digit runs of the version token
ParserVersions ==
    { <<<<49>> (* "1" *), <<49>> (* "1" *)>>, <<<<48>> (* "0" *), <<57>> (* "9" *)>>, <<<<50, 53, 53>> (* "255" *), <<50, 53, 53>> (* "255" *)>>, <<<<48, 48, 49>> (* "001" *), <<48, 49, 48>> (* "010" *)>>,
      <<<<51, 48, 48>> (* "300" *), <<49>> (* "1" *)>>, <<<<49>> (* "1" *), <<50, 53, 54>> (* "256" *)>>, <<<<50, 53, 54>> (* "256" *), <<49, 48, 48, 48>> (* "1000" *)>> }

ParserHeaderLines ==
    { <<72, 111, 115, 116, 58, 32, 108, 111, 99, 97, 108, 104, 111, 115, 116, 58, 52, 50, 50, 49, 13, 10>> (* "Host: localhost:4221\r\n" *),
      <<85, 115, 101, 114, 45, 65, 103, 101, 110, 116, 58, 32, 99, 117, 114, 108, 47, 55, 46, 54, 52, 46, 49, 13, 10>> (* "User-Agent: curl/7.64.1\r\n" *),
      <<117, 115, 101, 114, 45, 97, 103, 101, 110, 116, 58, 32, 77, 111, 122, 105, 108, 108, 97, 32, 53, 46, 48, 32, 13, 10>> (* "user-agent: Mozilla 5.0 \r\n" *),
      <<85, 83, 69, 82, 45, 65, 71, 69, 78, 84, 58, 32, 97, 58, 32, 98, 13, 10>> (* "USER-AGENT: a: b\r\n" *),
      <<72, 111, 115, 116, 58, 120, 13, 10>> (* "Host:x\r\n" *),
      <<88, 45, 69, 109, 112, 116, 121, 58, 32, 13, 10>> (* "X-Empty: \r\n" *),
      <<66, 97, 100, 32, 78, 97, 109, 101, 58, 32, 118, 13, 10>> (* "Bad Name: v\r\n" *) }

ParserRests == { <<>>, <<13, 10>> (* "\r\n" *), <<13, 10, 97, 98, 99>> (* "\r\nabc" *), <<13, 10, 32, 9>> (* "\r\n \t" *), <<13, 10, 13, 10>> (* "\r\n\r\n" *) }

RequestLineBytes(i) ==
    <<71, 69, 84, 32, 47, 105, 110, 100, 101, 120, 46, 104, 116, 109, 108, 32, 72, 84, 84, 80, 47>> (* "GET /index.html HTTP/" *) \o i.maj \o <<46>> (* "." *) \o i.min \o CRLF

ParserBytes(i) == RequestLineBytes(i) \o Concat(i.hdrs) \o i.rest

InitParser ==
    /\ pc = "parse"
    /\ file_dir = None
    /\ fs = EmptyFs
    /\ inp \in { [maj |-> v[1], min |-> v[2], hdrs |-> hs, rest |-> r] :
                   v \in ParserVersions,
                   hs \in SeqsUpTo(ParserHeaderLines, MaxHeaderLines),
                   r \in ParserRests }
    /\ buf = ParserBytes(inp)
    /\ parsed = None
    /\ response = None
    /\ calls = <<>>
    /\ out = None
    /\ fs_attempt = None
    /\ result = ""

\* Request::parser(buf)
Parse ==
    /\ pc = "parse"
    /\ parsed' = Some(Request_parser(buf))
    /\ pc' = "parsed"
    /\ UNCHANGED <<file_dir, fs, inp, buf, response, calls, out, fs_attempt, result>>

NextParser == Parse

SpecParser == InitParser /\ [][NextParser]_vars

(***************************************************************************)
(* SpecRoundTrip: Request::parser applied to the wire form of a request.   *)
(***************************************************************************)
MaxRequestHeaders == 2

RtMethods == {MethodTags[i] : i \in 1..Len(MethodTags)}
RtPaths == { <<47>> (* "/" *), <<47, 105, 110, 100, 101, 120, 46, 104, 116, 109, 108>> (* "/index.html" *), <<>> }
RtVersions == { <<1, 1>>, <<0, 0>>, <<255, 255>> }
RtNames == { <<72, 111, 115, 116>> (* "Host" *), <<117, 115, 101, 114, 45, 97, 103, 101, 110, 116>> (* "user-agent" *), <<88, 45, 97>> (* "X-a" *) }
RtValues == { <<108, 111, 99, 97, 108, 104, 111, 115, 116, 58, 52, 50, 50, 49>> (* "localhost:4221" *), <<97, 32, 66>> (* "a B" *), <<>> }
RtBodies == { None, Some(<<97, 98, 99>> (* "abc" *)), Some(<<32, 13, 10>> (* " \r\n" *)) }

RtHeaderMaps ==
    UNION { [ks -> RtValues] : ks \in {S \in SUBSET RtNames : Cardinality(S) <= MaxRequestHeaders} }

\* the wire format of a request: request line, header lines, blank line, body
Render(r) ==
    r.method[2] \o <<32>> (* " " *) \o r.path \o <<32>> (* " " *) \o <<72, 84, 84, 80, 47>> (* "HTTP/" *) \o Decimal(r.version[1])
      \o <<46>> (* "." *) \o Decimal(r.version[2]) \o CRLF
      \o Concat([i \in 1..Len(sorted_headers(r.headers)) |->
                   sorted_headers(r.headers)[i] \o ColonSpace
                     \o r.headers[sorted_headers(r.headers)[i]] \o CRLF])
      \o CRLF
      \o (IF r.body.some THEN r.body.v ELSE <<>>)

InitRoundTrip ==
    /\ pc = "parse"
    /\ file_dir = None
    /\ fs = EmptyFs
    /\ inp \in { [method |-> m, path |-> p, version |-> v, headers |-> h, body |-> b] :
                   m \in RtMethods, p \in RtPaths, v \in RtVersions,
                   h \in RtHeaderMaps, b \in RtBodies }
    /\ buf = Render(inp)
    /\ parsed = None
    /\ response = None
    /\ calls = <<>>
    /\ out = None
    /\ fs_attempt = None
    /\ result = ""

SpecRoundTrip == InitRoundTrip /\ [][NextParser]_vars

(***************************************************************************)
(* SpecBuilder: a Response made by Response::new, updated by with_header   *)
(* and with_body, then serialized.                                         *)
(***************************************************************************)
MaxCalls == 3

BuilderNames == { <<88>> (* "X" *), <<120>> (* "x" *), <<67, 111, 110, 116, 101, 110, 116, 45, 76, 101, 110, 103, 116, 104>> (* "Content-Length" *) }
BuilderValues == { <<97>> (* "a" *), <<66>> (* "B" *) }
BuilderBodies == { <<97, 98, 99>> (* "abc" *) }

InitBuilder ==
    /\ pc = "build"
    /\ file_dir = None
    /\ fs = EmptyFs
    /\ inp = <<>>
    /\ buf = <<>>
    /\ parsed = None
    /\ response \in {Some(Response_new("Ok")), Some(Response_default)}
    /\ calls = <<>>
    /\ out = None
    /\ fs_attempt = None
    /\ result = ""

WithHeader ==
    /\ pc = "build"
    /\ Len(calls) < MaxCalls
    /\ \E k \in BuilderNames, v \in BuilderValues :
         /\ response' = Some(with_header(response.v, k, v))
         /\ calls' = Append(calls, <<k, v>>)
    /\ UNCHANGED <<pc, file_dir, fs, inp, buf, parsed, out, fs_attempt, result>>

\* with_body makes two with_header calls of its own
WithBody ==
    /\ pc = "build"
    /\ Len(calls) < MaxCalls
    /\ \E b \in BuilderBodies :
         /\ response' = Some(with_body(response.v, b, <<116, 101, 120, 116, 47, 112, 108, 97, 105, 110>> (* "text/plain" *)))
         /\ calls' = calls \o << <<<<67, 111, 110, 116, 101, 110, 116, 45, 84, 121, 112, 101>> (* "Content-Type" *), <<116, 101, 120, 116, 47, 112, 108, 97, 105, 110>> (* "text/plain" *)>>,
                                 <<<<67, 111, 110, 116, 101, 110, 116, 45, 76, 101, 110, 103, 116, 104>> (* "Content-Length" *), Decimal(Len(b))>> >>
    /\ UNCHANGED <<pc, file_dir, fs, inp, buf, parsed, out, fs_attempt, result>>

\* Serialize::to_bytes
Serialize ==
    /\ pc = "build"
    /\ out' = Some(to_bytes(response.v))
    /\ pc' = "done"
    /\ UNCHANGED <<file_dir, fs, inp, buf, parsed, response, calls, fs_attempt, result>>

NextBuilder == WithHeader \/ WithBody \/ Serialize

SpecBuilder == InitBuilder /\ [][NextBuilder]_vars

(***************************************************************************)
(* SpecSerialize: to_bytes of any Response value (the fields are public).  *)
(***************************************************************************)
MaxHeaders == 2

SerVersions == { [major |-> 1, minor |-> 1], [major |-> 0, minor |-> 9],
                 [major |-> 255, minor |-> 10] }
SerKeys == { <<99, 111, 110, 116, 101, 110, 116, 45, 116, 121, 112, 101>> (* "content-type" *), <<99, 111, 110, 116, 101, 110, 116, 45, 108, 101, 110, 103, 116, 104>> (* "content-length" *), <<88, 45, 85, 112>> (* "X-Up" *), <<99, 111, 110, 116, 101, 110, 116>> (* "content" *) }
SerValues == { <<116, 101, 120, 116, 47, 112, 108, 97, 105, 110>> (* "text/plain" *), <<51>> (* "3" *) }
SerBodies == { None, Some(<<97, 98, 99>> (* "abc" *)), Some(<<>>) }

SerHeaderMaps ==
    UNION { [ks -> SerValues] : ks \in {S \in SUBSET SerKeys : Cardinality(S) <= MaxHeaders} }

InitSerialize ==
    /\ pc = "build"
    /\ file_dir = None
    /\ fs = EmptyFs
    /\ inp = <<>>
    /\ buf = <<>>
    /\ parsed = None
    /\ response \in { Some([status_line |-> [version |-> v, status |-> s],
                            headers |-> h, body |-> b]) :
                        v \in SerVersions, s \in Statuses, h \in SerHeaderMaps,
                        b \in SerBodies }
    /\ calls = <<>>
    /\ out = None
    /\ fs_attempt = None
    /\ result = ""

NextSerialize == Serialize

SpecSerialize == InitSerialize /\ [][NextSerialize]_vars

(***************************************************************************)
(* Vocabulary of the properties.  These definitions state what a buffer or *)
(* an output is on its own terms; none of them is used by the model of the *)
(* code above.                                                             *)
(***************************************************************************)
NameBytes == (65..90) \cup (97..122) \cup {45}

\* ASCII case fold
Fold(s) == [i \in 1..Len(s) |-> IF s[i] \in 65..90 THEN s[i] + 32 ELSE s[i]]

\* the value a run of decimal digits denotes
RECURSIVE DecValue(_)
DecValue(d) ==
    IF d = <<>> THEN 0 ELSE 10 * DecValue(SubSeq(d, 1, Len(d) - 1)) + (d[Len(d)] - 48)

\* a well-formed header line: one or more letters/hyphens, ": ", a non-empty
\* value free of CRLF, CRLF
WellFormedHeaderLine(l) ==
    LET n == PrefixLen(l, NameBytes)
    IN /\ n >= 1
       /\ Len(l) >= n + 5
       /\ l[n + 1] = 58 /\ l[n + 2] = 32
       /\ l[Len(l) - 1] = 13 /\ l[Len(l)] = 10
       /\ \A i \in (n + 3)..(Len(l) - 3) : ~(l[i] = 13 /\ l[i + 1] = 10)

LineName(l) == SubSeq(l, 1, PrefixLen(l, NameBytes))
LineValue(l) == SubSeq(l, PrefixLen(l, NameBytes) + 3, Len(l) - 2)

\* index of the first line of ls that is not well-formed, Len(ls) + 1 if none
FirstBad(ls) ==
    CHOOSE i \in 1..(Len(ls) + 1) :
        /\ \A j \in 1..(i - 1) : WellFormedHeaderLine(ls[j])
        /\ (i = Len(ls) + 1 \/ ~WellFormedHeaderLine(ls[i]))

AllWellFormed(ls) == FirstBad(ls) = Len(ls) + 1

\* the header map a run of well-formed lines denotes: lower-cased names, the
\* value of the last line of each name
ExpectedHeaders(ls) ==
    [k \in {Fold(LineName(ls[i])) : i \in 1..Len(ls)} |->
        LineValue(ls[CHOOSE i \in 1..Len(ls) :
                        /\ Fold(LineName(ls[i])) = k
                        /\ \A j \in (i + 1)..Len(ls) : Fold(LineName(ls[j])) # k])]

\* the request line of a SpecParser input is valid when both digit runs fit a u8
ValidRequestLine(i) == DecValue(i.maj) <= 255 /\ DecValue(i.min) <= 255

ParserRan == pc = "parsed" /\ parsed.some

\* lexicographic order of byte strings
RECURSIVE BytesBefore(_, _)
BytesBefore(a, b) ==
    IF b = <<>> THEN FALSE
    ELSE IF a = <<>> THEN TRUE
    ELSE IF a[1] # b[1] THEN a[1] < b[1]
    ELSE BytesBefore(Tail(a), Tail(b))

\* the keys of a header map in strictly ascending order
AscendingKeys(h) ==
    CHOOSE ks \in [1..Cardinality(DOMAIN h) -> DOMAIN h] :
        \A i, j \in 1..Cardinality(DOMAIN h) : i < j => BytesBefore(ks[i], ks[j])

\* the status lines of the wire format
VersionText(v) ==
    CASE v = [major |-> 1, minor |-> 1] -> <<72, 84, 84, 80, 47, 49, 46, 49>> (* "HTTP/1.1" *)
      [] v = [major |-> 0, minor |-> 9] -> <<72, 84, 84, 80, 47, 48, 46, 57>> (* "HTTP/0.9" *)
      [] v = [major |-> 255, minor |-> 10] -> <<72, 84, 84, 80, 47, 50, 53, 53, 46, 49, 48>> (* "HTTP/255.10" *)

StatusText(st) ==
    CASE st = "Ok" -> <<50, 48, 48, 32, 79, 75>> (* "200 OK" *)
      [] st = "Created" -> <<50, 48, 49, 32, 67, 114, 101, 97, 116, 101, 100>> (* "201 Created" *)
      [] st = "BadRequest" -> <<52, 48, 48, 32, 66, 97, 100, 32, 82, 101, 113, 117, 101, 115, 116>> (* "400 Bad Request" *)
      [] st = "NotFound" -> <<52, 48, 52, 32, 78, 79, 84, 32, 70, 79, 85, 78, 68>> (* "404 NOT FOUND" *)
      [] st = "Internal" -> <<53, 48, 48, 32, 73, 110, 116, 101, 114, 110, 97, 108, 32, 83, 101, 114, 118, 101, 114, 32, 69, 114, 114, 111, 114>> (* "500 Internal Server Error" *)

ExpectedWire(r) ==
    VersionText(r.status_line.version) \o <<32>> (* " " *) \o StatusText(r.status_line.status) \o CRLF
      \o Concat([i \in 1..Cardinality(DOMAIN r.headers) |->
                   AscendingKeys(r.headers)[i] \o <<58, 32>> (* ": " *)
                     \o r.headers[AscendingKeys(r.headers)[i]] \o CRLF])
      \o CRLF
      \o (IF r.body.some THEN r.body.v ELSE <<>>)

\* the CRLF-terminated lines of s, then what follows the last CRLF
RECURSIVE SplitLines(_)
SplitLines(s) ==
    IF FindSubstring(s, CRLF) < 0 THEN <<s>>
    ELSE <<SubSeq(s, 1, FindSubstring(s, CRLF))>>
           \o SplitLines(SubSeq(s, FindSubstring(s, CRLF) + 3, Len(s)))

\* the header lines of a serialized response: the lines between the status
\* line and the first empty line
HeaderLinesOf(o) ==
    LET ls == SplitLines(o)
        blank == CHOOSE i \in 1..Len(ls) : ls[i] = <<>> /\ \A j \in 1..(i - 1) : ls[j] # <<>>
    IN SubSeq(ls, 2, blank - 1)

\* the name of an output header line: what precedes its first ": "
OutName(l) == SubSeq(l, 1, FindSubstring(l, <<58, 32>> (* ": " *)))

\* the value of the last with_header call for a name
LastValue(cs, name) ==
    cs[CHOOSE i \in 1..Len(cs) :
         /\ Fold(cs[i][1]) = Fold(name)
         /\ \A j \in (i + 1)..Len(cs) : Fold(cs[j][1]) # Fold(name)][2]

(***************************************************************************)
(* C1                                                                      *)
(***************************************************************************)
\* C1: whatever the Response (status, version, header map, body or none),
\* serialize writes exactly the status line, one "key: value" line per header
\* in strictly ascending key order, a blank line (also with no headers and no
\* body), then the body bytes and nothing more.
C1_SerializeExact ==
    out.some => out.v = ExpectedWire(response.v)

C1_Witness ==
    /\ out.some
    /\ Cardinality(DOMAIN response.v.headers) = 2
    /\ <<88, 45, 85, 112>> (* "X-Up" *) \in DOMAIN response.v.headers
    /\ response.v.body = Some(<<97, 98, 99>> (* "abc" *))

(***************************************************************************)
(* C2                                                                      *)
(***************************************************************************)
\* C2: a buffer of a valid request line, well-formed header lines and the
\* blank line parses to body = None when nothing follows the blank line and to
\* body = Some(the bytes that follow) otherwise.
C2_BodyAfterBlankLine ==
    (ParserRan /\ ValidRequestLine(inp) /\ AllWellFormed(inp.hdrs)
       /\ StartsWith(inp.rest, CRLF))
    => /\ parsed.v.ok
       /\ parsed.v.val.body =
            (IF Len(inp.rest) = 2 THEN None ELSE Some(SubSeq(inp.rest, 3, Len(inp.rest))))

(***************************************************************************)
(* C3                                                                      *)
(***************************************************************************)
EndsAfterHeaders ==
    /\ ParserRan
    /\ ValidRequestLine(inp)
    /\ Len(inp.hdrs) >= 1
    /\ AllWellFormed(inp.hdrs)
    /\ inp.rest = <<>>

\* C3 as stated: a buffer that ends right after the CRLF of its last header
\* line (no blank line) is a parse failure.
C3_MissingBlankLineFails ==
    EndsAfterHeaders => ~parsed.v.ok

\* C3 as the code has it: such a buffer parses; the Request holds every header
\* line, its body is None and no input is left.
C3_MissingBlankLineParses ==
    EndsAfterHeaders
    => /\ parsed.v.ok
       /\ parsed.v.remain = <<>>
       /\ parsed.v.val.headers = ExpectedHeaders(inp.hdrs)
       /\ parsed.v.val.body = None

C3_Witness ==
    EndsAfterHeaders /\ Len(inp.hdrs) = 2 /\ parsed.v.ok

(***************************************************************************)
(* C4                                                                      *)
(***************************************************************************)
HasMalformedLine ==
    /\ ParserRan
    /\ ValidRequestLine(inp)
    /\ ~AllWellFormed(inp.hdrs)

\* C4 as stated: a header block with a malformed line makes the parser return
\* an error.
C4_MalformedLineFails ==
    HasMalformedLine => ~parsed.v.ok

\* C4 as the code has it: the parser returns Ok; the Request holds exactly the
\* headers before the first malformed line, its body is None, and the
\* unconsumed remainder is the buffer from that line on.
C4_MalformedLineStops ==
    HasMalformedLine
    => /\ parsed.v.ok
       /\ parsed.v.val.headers = ExpectedHeaders(SubSeq(inp.hdrs, 1, FirstBad(inp.hdrs) - 1))
       /\ parsed.v.val.body = None
       /\ parsed.v.remain =
            Concat(SubSeq(inp.hdrs, FirstBad(inp.hdrs), Len(inp.hdrs))) \o inp.rest
       /\ parsed.v.remain # <<>>

C4_Witness ==
    /\ HasMalformedLine
    /\ FirstBad(inp.hdrs) = 2
    /\ parsed.v.ok
    /\ DOMAIN parsed.v.val.headers # {}
    /\ inp.rest = <<13, 10, 97, 98, 99>> (* "\r\nabc" *)

(***************************************************************************)
(* C5                                                                      *)
(***************************************************************************)
\* the Request the wire form of r stands for: r with its header names folded
Folded(r) ==
    [req_line |-> [method |-> r.method[1], path |-> r.path,
                   version |-> [major |-> r.version[1], minor |-> r.version[2]]],
     headers |-> [k \in {Fold(n) : n \in DOMAIN r.headers} |->
                    r.headers[CHOOSE n \in DOMAIN r.headers : Fold(n) = k]],
     body |-> r.body]

\* C5: parsing the wire form of a request gives the request back, header
\* names lower-cased, with no input left.  Stated for the requests whose path
\* and header values are not empty; with an empty path or value the wire form
\* is not parsed as that request either.
C5_RoundTrip ==
    (ParserRan /\ inp.path # <<>> /\ \A n \in DOMAIN inp.headers : inp.headers[n] # <<>>)
    => /\ parsed.v.ok
       /\ parsed.v.remain = <<>>
       /\ parsed.v.val = Folded(inp)

(***************************************************************************)
(* C6                                                                      *)
(***************************************************************************)
\* the header map a sequence of with_header calls denotes: lower-cased names,
\* the lower-cased value of the last call of each name
CalledHeaders(cs) ==
    [k \in {Fold(cs[i][1]) : i \in 1..Len(cs)} |-> Fold(LastValue(cs, k))]

\* C6: after any sequence of with_header calls, the serialized output has, for
\* each name called (case-insensitively), exactly one header line: the
\* lower-cased name, ": ", the lower-cased value of the last call; the header
\* block holds nothing else.
C6_LastHeaderWins ==
    (pc = "done" /\ out.some)
    => /\ \A c \in 1..Len(calls) :
            LET mine == {j \in 1..Len(HeaderLinesOf(out.v)) :
                           Fold(OutName(HeaderLinesOf(out.v)[j])) = Fold(calls[c][1])}
            IN /\ Cardinality(mine) = 1
               /\ \A j \in mine :
                    HeaderLinesOf(out.v)[j] =
                      Fold(calls[c][1]) \o <<58, 32>> (* ": " *) \o Fold(LastValue(calls, calls[c][1]))
       /\ out.v = ExpectedWire([response.v EXCEPT !.headers = CalledHeaders(calls)])

C6_Witness ==
    /\ pc = "done"
    /\ out.some
    /\ \E i, j \in 1..Len(calls) :
         /\ i < j
         /\ calls[i][1] # calls[j][1]
         /\ Fold(calls[i][1]) = Fold(calls[j][1])
         /\ Fold(calls[i][2]) # Fold(calls[j][2])
         /\ calls[j][2] # Fold(calls[j][2])

(***************************************************************************)
(* C7                                                                      *)
(***************************************************************************)
\* C7: a version whose major or minor digits denote more than 255 makes the
\* parse fail (nom's MapRes error at the digit run: the code's BadVersion);
\* every Version returned has the decimal values of the digits read.
C7_VersionOverflowFails ==
    ParserRan
    => /\ (DecValue(inp.maj) > 255 \/ DecValue(inp.min) > 255)
            => /\ ~parsed.v.ok
               /\ parsed.v.kind = "MapRes"
               /\ StartsWith(parsed.v.input,
                             IF DecValue(inp.maj) > 255 THEN inp.maj ELSE inp.min)
       /\ parsed.v.ok
            => parsed.v.val.req_line.version =
                 [major |-> DecValue(inp.maj), minor |-> DecValue(inp.min)]

C7_Witness ==
    ParserRan /\ inp.maj = <<51, 48, 48>> (* "300" *) /\ ~parsed.v.ok

(***************************************************************************)
(* C8                                                                      *)
(***************************************************************************)
\* C8: every key of a parsed Request's header map is lower-case, every value
\* is the bytes between ": " and CRLF unchanged, and lines whose names differ
\* only in case share one entry holding the value of the last of them.
C8_HeaderMap ==
    (ParserRan /\ parsed.v.ok)
    => /\ \A k \in DOMAIN parsed.v.val.headers : \A i \in 1..Len(k) : k[i] \notin 65..90
       /\ parsed.v.val.headers =
            ExpectedHeaders(SubSeq(inp.hdrs, 1, FirstBad(inp.hdrs) - 1))

C8_Witness ==
    /\ ParserRan
    /\ parsed.v.ok
    /\ inp.hdrs = << <<85, 115, 101, 114, 45, 65, 103, 101, 110, 116, 58, 32, 99, 117, 114, 108, 47, 55, 46, 54, 52, 46, 49, 13, 10>> (* "User-Agent: curl/7.64.1\r\n" *), <<117, 115, 101, 114, 45, 97, 103, 101, 110, 116, 58, 32, 77, 111, 122, 105, 108, 108, 97, 32, 53, 46, 48, 32, 13, 10>> (* "user-agent: Mozilla 5.0 \r\n" *) >>
    /\ DOMAIN parsed.v.val.headers = { <<117, 115, 101, 114, 45, 97, 103, 101, 110, 116>> (* "user-agent" *) }

(***************************************************************************)
(* C9                                                                      *)
(***************************************************************************)
\* C9: when the bytes read fail to parse, the handler has written a 4xx or
\* 5xx response to the connection by the time it finishes.
C9_ParseFailureAnswered ==
    (pc = "done" /\ parsed.some /\ ~parsed.v.ok)
    => /\ out.some
       /\ (StartsWith(out.v, <<72, 84, 84, 80, 47, 49, 46, 49, 32, 52>> (* "HTTP/1.1 4" *)) \/ StartsWith(out.v, <<72, 84, 84, 80, 47, 49, 46, 49, 32, 53>> (* "HTTP/1.1 5" *)))

(***************************************************************************)
(* C10                                                                     *)
(***************************************************************************)
\* what a content-length value declares: the number, -1 when it is no
\* unsigned integer, and ReadBufSize + 1 for a number beyond any buffer
DeclaredLength(v) ==
    CASE v = <<51>> (* "3" *) -> 3
      [] v = <<48>> (* "0" *) -> 0
      [] v = <<53>> (* "5" *) -> 5
      [] v = <<43, 50>> (* "+2" *) -> 2
      [] v = <<52, 50, 57, 52, 57, 54, 55, 50, 57, 54>> (* "4294967296" *) -> ReadBufSize + 1
      [] OTHER -> -1

PostFiles ==
    /\ pc \in {"write", "done"}
    /\ parsed.some
    /\ parsed.v.ok
    /\ parsed.v.val.req_line.method = "Post"
    /\ StartsWith(parsed.v.val.req_line.path, <<47, 102, 105, 108, 101, 115, 47>> (* "/files/" *))
    /\ file_dir.some

Declared ==
    IF <<99, 111, 110, 116, 101, 110, 116, 45, 108, 101, 110, 103, 116, 104>> (* "content-length" *) \in DOMAIN parsed.v.val.headers
    THEN DeclaredLength(parsed.v.val.headers[<<99, 111, 110, 116, 101, 110, 116, 45, 108, 101, 110, 103, 116, 104>> (* "content-length" *)])
    ELSE -1

Writable ==
    /\ parsed.v.val.body.some
    /\ Declared >= 0
    /\ Declared <= Len(parsed.v.val.body.v)

\* C10: a POST to /files/<name> with a directory attempts a write exactly when
\* there is a body and a numeric content-length n not above the body length;
\* it writes the first n bytes of the body and answers 201 when the write
\* succeeds; otherwise nothing is written and the answer is 400.
C10_PostFilesWrite ==
    PostFiles
    => /\ fs_attempt.some <=> Writable
       /\ Writable
            => /\ fs_attempt.v.path = SubSeq(parsed.v.val.req_line.path, 8,
                                             Len(parsed.v.val.req_line.path))
               /\ fs_attempt.v.data = SubSeq(parsed.v.val.body.v, 1, Declared)
               /\ fs_attempt.v.ok
                    => /\ response.v.status_line.status = "Created"
                       /\ fs[fs_attempt.v.path] = fs_attempt.v.data
       /\ ~Writable
            => /\ response.v.status_line.status = "BadRequest"
               /\ fs_attempt = None

C10_Witness ==
    /\ PostFiles
    /\ fs_attempt.some
    /\ fs_attempt.v.ok
    /\ Len(fs_attempt.v.data) = 3
    /\ Len(parsed.v.val.body.v) = 4
    /\ response.v.status_line.status = "Created"

=============================================================================
